---- MODULE Spec2Model ----
(***************************************************************************)
(* Process lifecycle of the Telegram referral bot entry point              *)
(* (src/main.py): single-instance lock file, database pool init/close,     *)
(* webhook reset, SIGINT/SIGTERM handling and the polling retry loop.      *)
(*                                                                         *)
(* Several launches of the script (processes) share one filesystem, hence  *)
(* one LOCK_FILE.  Each process is a sequential Python interpreter: its    *)
(* main code advances through pc, and a delivered signal either runs       *)
(* handle_shutdown on top of the main code (hs), raises KeyboardInterrupt  *)
(* (default SIGINT disposition) or kills the process (default SIGTERM).    *)
(* init_db_pool, close_db_pool, bot.remove_webhook and                     *)
(* bot.infinity_polling are imported collaborators: each call either       *)
(* returns or raises an Exception.                                         *)
(***************************************************************************)
EXTENDS Integers, Sequences, FiniteSets, TLC

\* ---------------------------------------------------------------- bounds
\* launches of the script in a run of Spec
NumProcs == 2
\* events the environment contributes to a run with NumProcs launches: signals
\* delivered, calls that raise, returns of bot.infinity_polling
MaxEvents == 2
\* the same for a run of one launch alone
SoloEvents == 4

\* ------------------------------------------------------ program constants
\* time.sleep(5) in start_polling_with_retry
RetryDelay == 5

\* process identifiers: Spec launches the first NumProcs of them, SoloSpec
\* the first one, TrioSpec all three
Procs == {1, 2, 3}

Signals == {"SIGINT", "SIGTERM"}

\* positions of the main code of one process
PcValues ==
    {"idle", "esi_check", "esi_create", "init", "webhook", "reg_atexit",
     "reg_sigint", "reg_sigterm", "polling", "backoff", "atexit", "dead"}

\* positions inside a running handle_shutdown ("none": no handler running)
HsValues == {"none", "close", "check", "remove", "exit"}

\* how a process ended ("none": still running or never launched)
StatusValues == {"none", "exit0", "exit1", "sigint", "sigterm"}

VARIABLES
    lockFile,     \* os.path.exists(LOCK_FILE)
    pc,           \* pc[p]: position of the main code of process p
    hs,           \* hs[p]: position of the innermost running handle_shutdown
    status,       \* status[p]: exit status of p
    atexitHook,   \* atexitHook[p]: atexit.register(close_db_pool) was executed
    sigintH,      \* sigintH[p]: handle_shutdown installed for SIGINT
    sigtermH,     \* sigtermH[p]: handle_shutdown installed for SIGTERM
    n,            \* n[p]: calls made by p, per collaborator
    created,      \* created[p]: p wrote LOCK_FILE in ensure_single_instance
    conflict,     \* conflict[p]: p found LOCK_FILE present in ensure_single_instance
    raised,       \* raised[p]: the collaborator calls of p that raised
    signals,      \* signals[p]: number of signals delivered to p
    cleanupLog,   \* cleanupLog[p]: shutdown steps of p, in the order performed
    lockAtExit,   \* lockAtExit[p]: LOCK_FILE existed when p terminated
    envBudget,    \* environment events still to come in this run
    launchLimit,  \* launches of the script in this run
    esiOverlap,   \* some launch began while another was inside ensure_single_instance
    afterStale    \* afterStale[p]: when p was launched, a process that had created
                  \* the marker had already terminated leaving it in place

vars ==
    <<lockFile, pc, hs, status, atexitHook, sigintH, sigtermH, n, created,
      conflict, raised, signals, cleanupLog, lockAtExit, esiOverlap,
      afterStale, envBudget, launchLimit>>

\* registration state of one interpreter
regVars == <<atexitHook, sigintH, sigtermH>>

\* what the environment did and may still do
envVars == <<raised, signals, envBudget, launchLimit>>

\* history of the lock guard
esiVars == <<created, conflict, esiOverlap, afterStale>>

NoCalls ==
    [init |-> 0, webhook |-> 0, reg |-> 0, poll |-> 0, pollRaised |-> 0,
     pollReturned |-> 0, sleep |-> 0, slept |-> 0, close |-> 0]

\* the state before any launch, in a run of launches launches to which the
\* environment contributes events events
InitWith(events, launches) ==
    /\ lockFile = FALSE
    /\ pc = [p \in Procs |-> "idle"]
    /\ hs = [p \in Procs |-> "none"]
    /\ status = [p \in Procs |-> "none"]
    /\ atexitHook = [p \in Procs |-> FALSE]
    /\ sigintH = [p \in Procs |-> FALSE]
    /\ sigtermH = [p \in Procs |-> FALSE]
    /\ n = [p \in Procs |-> NoCalls]
    /\ created = [p \in Procs |-> FALSE]
    /\ conflict = [p \in Procs |-> FALSE]
    /\ raised = [p \in Procs |-> {}]
    /\ signals = [p \in Procs |-> 0]
    /\ cleanupLog = [p \in Procs |-> <<>>]
    /\ lockAtExit = [p \in Procs |-> FALSE]
    /\ esiOverlap = FALSE
    /\ afterStale = [p \in Procs |-> FALSE]
    /\ envBudget = events
    /\ launchLimit = launches

Init == InitWith(MaxEvents, NumProcs)

\* the environment spends one of its events
EnvEvent ==
    /\ envBudget > 0
    /\ envBudget' = envBudget - 1
    /\ UNCHANGED launchLimit

NoEnv == UNCHANGED envVars

\* the call named what raises in process p
Raise(p, what) ==
    /\ EnvEvent
    /\ raised' = [raised EXCEPT ![p] = @ \cup {what}]
    /\ UNCHANGED signals

Alive(p) == pc[p] \notin {"idle", "dead"}

InEsi(p) == pc[p] \in {"esi_check", "esi_create"}

\* the main code of p runs only while no signal handler is on top of it
MainAt(p, where) == pc[p] = where /\ hs[p] = "none"

\* The process p terminates now with exit status st; lockNow is the state of
\* LOCK_FILE it leaves behind.
Terminate(p, st, lockNow) ==
    /\ pc' = [pc EXCEPT ![p] = "dead"]
    /\ hs' = [hs EXCEPT ![p] = "none"]
    /\ status' = [status EXCEPT ![p] = st]
    /\ lockAtExit' = [lockAtExit EXCEPT ![p] = lockNow]

\* An exception that nothing catches reaches the top of the main code of p:
\* the interpreter exits with status st, running the atexit hooks first when
\* one is registered.  Inside a running atexit hook the hook is abandoned and
\* the exit already under way completes.
Uncaught(p, st, lockNow) ==
    IF pc[p] = "atexit"
    THEN Terminate(p, status[p], lockNow)
    ELSE IF atexitHook[p]
         THEN /\ pc' = [pc EXCEPT ![p] = "atexit"]
              /\ hs' = [hs EXCEPT ![p] = "none"]
              /\ status' = [status EXCEPT ![p] = st]
              /\ UNCHANGED lockAtExit
         ELSE Terminate(p, st, lockNow)

\* ------------------------------------------------------------ __main__
\* python main.py: launches are numbered in the order they are started
Launch(p) ==
    /\ pc[p] = "idle"
    /\ p <= launchLimit
    /\ \A q \in Procs : q < p => pc[q] # "idle"
    /\ pc' = [pc EXCEPT ![p] = "esi_check"]
    /\ esiOverlap' = (esiOverlap \/ \E q \in Procs : InEsi(q))
    /\ afterStale' =
           [afterStale EXCEPT ![p] =
               \E q \in Procs : pc[q] = "dead" /\ created[q] /\ lockAtExit[q]]
    /\ NoEnv
    /\ UNCHANGED <<lockFile, hs, status, regVars, n, created, conflict,
                   cleanupLog, lockAtExit>>

\* EsiCheck with a staleness test: a marker that no live instance stands
\* behind is treated as expired and taken over
EsiCheck_StaleTakeover(p) ==
    /\ MainAt(p, "esi_check")
    /\ IF lockFile /\ \E q \in Procs : q # p /\ Alive(q) /\ ~InEsi(q)
       THEN /\ conflict' = [conflict EXCEPT ![p] = TRUE]
            /\ Terminate(p, "exit1", lockFile)
       ELSE /\ pc' = [pc EXCEPT ![p] = "esi_create"]
            /\ UNCHANGED <<conflict, hs, status, lockAtExit>>
    /\ NoEnv
    /\ UNCHANGED <<lockFile, regVars, n, created, esiOverlap, afterStale,
                   cleanupLog>>

\* EsiCheck without the sys.exit(1): the conflict is printed and the launch
\* goes on to write the marker
EsiCheck_NoExit(p) ==
    /\ MainAt(p, "esi_check")
    /\ conflict' = [conflict EXCEPT ![p] = lockFile]
    /\ pc' = [pc EXCEPT ![p] = "esi_create"]
    /\ NoEnv
    /\ UNCHANGED <<lockFile, hs, status, lockAtExit, regVars, n, created,
                   esiOverlap, afterStale, cleanupLog>>

\* ensure_single_instance, the existence test and the conflict exit
EsiCheck(p) ==
    /\ MainAt(p, "esi_check")
    /\ IF lockFile
       THEN /\ conflict' = [conflict EXCEPT ![p] = TRUE]
            /\ Terminate(p, "exit1", lockFile)
       ELSE /\ pc' = [pc EXCEPT ![p] = "esi_create"]
            /\ UNCHANGED <<conflict, hs, status, lockAtExit>>
    /\ NoEnv
    /\ UNCHANGED <<lockFile, regVars, n, created, esiOverlap, afterStale,
                   cleanupLog>>

\* EsiCreate with an exclusive create: a marker that appeared since the
\* existence test makes the create fail and the process exit with status 1
EsiCreate_Exclusive(p) ==
    /\ MainAt(p, "esi_create")
    /\ IF lockFile
       THEN /\ conflict' = [conflict EXCEPT ![p] = TRUE]
            /\ Terminate(p, "exit1", lockFile)
            /\ UNCHANGED <<lockFile, created>>
       ELSE /\ lockFile' = TRUE
            /\ created' = [created EXCEPT ![p] = TRUE]
            /\ pc' = [pc EXCEPT ![p] = "init"]
            /\ UNCHANGED <<conflict, hs, status, lockAtExit>>
    /\ NoEnv
    /\ UNCHANGED <<regVars, n, esiOverlap, afterStale, cleanupLog>>

\* ensure_single_instance, open(LOCK_FILE, "w") and write
EsiCreate(p) ==
    /\ MainAt(p, "esi_create")
    /\ lockFile' = TRUE
    /\ created' = [created EXCEPT ![p] = TRUE]
    /\ pc' = [pc EXCEPT ![p] = "init"]
    /\ NoEnv
    /\ UNCHANGED <<hs, status, regVars, n, conflict, esiOverlap, afterStale,
                   cleanupLog, lockAtExit>>

\* ---------------------------------------------------------------- main
\* InitDbPool without the sys.exit(1): the failure is printed and main goes on
InitDbPool_Continues(p) ==
    /\ MainAt(p, "init")
    /\ n' = [n EXCEPT ![p].init = @ + 1]
    /\ \/ NoEnv
       \/ Raise(p, "init_db_pool")
    /\ pc' = [pc EXCEPT ![p] = "webhook"]
    /\ UNCHANGED <<lockFile, hs, status, lockAtExit, regVars, esiVars,
                   cleanupLog>>

\* main, the try around init_db_pool(): a raised Exception is printed and
\* answered with sys.exit(1); nothing is registered with atexit yet
InitDbPool(p) ==
    /\ MainAt(p, "init")
    /\ n' = [n EXCEPT ![p].init = @ + 1]
    /\ \/ /\ pc' = [pc EXCEPT ![p] = "webhook"]
          /\ NoEnv
          /\ UNCHANGED <<hs, status, lockAtExit>>
       \/ /\ Raise(p, "init_db_pool")
          /\ Terminate(p, "exit1", lockFile)
    /\ UNCHANGED <<lockFile, regVars, esiVars, cleanupLog>>

\* ResetWebhook treating the failure like the one of init_db_pool: sys.exit(1)
ResetWebhook_Fatal(p) ==
    /\ MainAt(p, "webhook")
    /\ n' = [n EXCEPT ![p].webhook = @ + 1]
    /\ \/ /\ pc' = [pc EXCEPT ![p] = "reg_atexit"]
          /\ NoEnv
          /\ UNCHANGED <<hs, status, lockAtExit>>
       \/ /\ Raise(p, "remove_webhook")
          /\ Terminate(p, "exit1", lockFile)
    /\ UNCHANGED <<lockFile, regVars, esiVars, cleanupLog>>

\* reset_webhook: bot.remove_webhook() inside try/except Exception
ResetWebhook(p) ==
    /\ MainAt(p, "webhook")
    /\ n' = [n EXCEPT ![p].webhook = @ + 1]
    /\ \/ NoEnv
       \/ Raise(p, "remove_webhook")
    /\ pc' = [pc EXCEPT ![p] = "reg_atexit"]
    /\ UNCHANGED <<lockFile, hs, status, regVars, esiVars, cleanupLog,
                   lockAtExit>>

\* atexit.register(close_db_pool)
RegisterAtexit(p) ==
    /\ MainAt(p, "reg_atexit")
    /\ atexitHook' = [atexitHook EXCEPT ![p] = TRUE]
    /\ pc' = [pc EXCEPT ![p] = "reg_sigint"]
    /\ n' = [n EXCEPT ![p].reg = @ + 1]
    /\ NoEnv
    /\ UNCHANGED <<lockFile, hs, status, sigintH, sigtermH, esiVars,
                   cleanupLog, lockAtExit>>

\* signal.signal(signal.SIGINT, handle_shutdown)
RegisterSigint(p) ==
    /\ MainAt(p, "reg_sigint")
    /\ sigintH' = [sigintH EXCEPT ![p] = TRUE]
    /\ pc' = [pc EXCEPT ![p] = "reg_sigterm"]
    /\ n' = [n EXCEPT ![p].reg = @ + 1]
    /\ NoEnv
    /\ UNCHANGED <<lockFile, hs, status, atexitHook, sigtermH, esiVars,
                   cleanupLog, lockAtExit>>

\* signal.signal(signal.SIGTERM, handle_shutdown), then start_polling_with_retry
\* enters its loop and invokes bot.infinity_polling for the first time
RegisterSigterm(p) ==
    /\ MainAt(p, "reg_sigterm")
    /\ sigtermH' = [sigtermH EXCEPT ![p] = TRUE]
    /\ pc' = [pc EXCEPT ![p] = "polling"]
    /\ n' = [n EXCEPT ![p].reg = @ + 1, ![p].poll = @ + 1]
    /\ NoEnv
    /\ UNCHANGED <<lockFile, hs, status, atexitHook, sigintH, esiVars,
                   cleanupLog, lockAtExit>>

\* ------------------------------------------------ start_polling_with_retry
\* AfterRaise in a loop whose except clause logs the error and retries at
\* once, without time.sleep
AfterRaise_NoSleep(c) ==
    [c EXCEPT !.pollRaised = @ + 1]

\* The counters of a process after the except branch of the loop was entered:
\* the error is logged and time.sleep(5) begins.
AfterRaise(c) ==
    [c EXCEPT !.pollRaised = @ + 1, !.sleep = @ + 1, !.slept = @ + RetryDelay]

\* bot.infinity_polling raises an Exception
PollRaise(p) ==
    /\ MainAt(p, "polling")
    /\ Raise(p, "infinity_polling")
    /\ pc' = [pc EXCEPT ![p] = "backoff"]
    /\ n' = [n EXCEPT ![p] = AfterRaise(@)]
    /\ UNCHANGED <<lockFile, hs, status, regVars, esiVars, cleanupLog,
                   lockAtExit>>

\* PollReturn with the sleep placed after the try statement instead of inside
\* the except clause: a normal return is followed by a sleep as well
PollReturn_Sleeps(p) ==
    /\ MainAt(p, "polling")
    /\ EnvEvent
    /\ n' = [n EXCEPT ![p].pollReturned = @ + 1,
                      ![p].poll = @ + 1,
                      ![p].sleep = @ + 1,
                      ![p].slept = @ + RetryDelay]
    /\ UNCHANGED <<lockFile, pc, hs, status, regVars, esiVars, raised, signals,
                   cleanupLog, lockAtExit>>

\* bot.infinity_polling returns without raising: while True invokes it again
PollReturn(p) ==
    /\ MainAt(p, "polling")
    /\ EnvEvent
    /\ n' = [n EXCEPT ![p].pollReturned = @ + 1, ![p].poll = @ + 1]
    /\ UNCHANGED <<lockFile, pc, hs, status, regVars, esiVars, raised, signals,
                   cleanupLog, lockAtExit>>

\* BackoffDone in a retry loop with a maximum retry count of one: after the
\* second failure the error is re-raised and the process ends
BackoffDone_MaxRetries(p) ==
    /\ MainAt(p, "backoff")
    /\ IF n[p].pollRaised < 2
       THEN /\ pc' = [pc EXCEPT ![p] = "polling"]
            /\ n' = [n EXCEPT ![p].poll = @ + 1]
            /\ UNCHANGED <<hs, status, lockAtExit>>
       ELSE /\ Uncaught(p, "exit1", lockFile)
            /\ UNCHANGED n
    /\ NoEnv
    /\ UNCHANGED <<lockFile, regVars, esiVars, cleanupLog>>

\* BackoffDone in a retry that calls main() again instead of looping around
\* bot.infinity_polling
BackoffDone_RestartsMain(p) ==
    /\ MainAt(p, "backoff")
    /\ pc' = [pc EXCEPT ![p] = "init"]
    /\ NoEnv
    /\ UNCHANGED <<lockFile, hs, status, regVars, n, esiVars, cleanupLog,
                   lockAtExit>>

\* time.sleep(5) returns: the loop invokes bot.infinity_polling again
BackoffDone(p) ==
    /\ MainAt(p, "backoff")
    /\ pc' = [pc EXCEPT ![p] = "polling"]
    /\ n' = [n EXCEPT ![p].poll = @ + 1]
    /\ NoEnv
    /\ UNCHANGED <<lockFile, hs, status, regVars, esiVars, cleanupLog,
                   lockAtExit>>

\* ------------------------------------------------------- signal delivery
HandlerFor(p, sig) == IF sig = "SIGINT" THEN sigintH[p] ELSE sigtermH[p]

\* The kernel delivers sig to the live process p.  With handle_shutdown
\* installed the interpreter calls it on top of whatever is running (a
\* handle_shutdown already running included, which then never resumes, since
\* every call of handle_shutdown ends in an exception).  Otherwise SIGTERM
\* kills the process at once and SIGINT raises KeyboardInterrupt, which no
\* except clause of main.py catches.
Deliver(p, sig) ==
    /\ Alive(p)
    /\ EnvEvent
    /\ signals' = [signals EXCEPT ![p] = @ + 1]
    /\ IF HandlerFor(p, sig)
       THEN /\ hs' = [hs EXCEPT ![p] = "close"]
            /\ UNCHANGED <<pc, status, lockAtExit>>
       ELSE IF sig = "SIGTERM"
            THEN Terminate(p, "sigterm", lockFile)
            ELSE Uncaught(p, "sigint", lockFile)
    /\ UNCHANGED <<lockFile, regVars, n, esiVars, raised, cleanupLog>>

\* ------------------------------------------------------- handle_shutdown
\* An Exception leaves handle_shutdown and arrives in the interrupted main
\* code of p, whose counters become calls.  Inside bot.infinity_polling it is
\* either absorbed by the collaborator or reaches the except clause of the
\* retry loop; anywhere else nothing catches it.
HandlerRaises(p, calls, lockNow) ==
    \/ /\ pc[p] = "polling"
       /\ pc' = [pc EXCEPT ![p] = "backoff"]
       /\ hs' = [hs EXCEPT ![p] = "none"]
       /\ n' = [n EXCEPT ![p] = AfterRaise(calls)]
       /\ UNCHANGED <<status, lockAtExit>>
    \/ /\ pc[p] = "polling"
       /\ hs' = [hs EXCEPT ![p] = "none"]
       /\ n' = [n EXCEPT ![p] = calls]
       /\ UNCHANGED <<pc, status, lockAtExit>>
    \/ /\ pc[p] # "polling"
       /\ n' = [n EXCEPT ![p] = calls]
       /\ Uncaught(p, "exit1", lockNow)

\* HsClose in a handle_shutdown that goes from close_db_pool() straight to
\* sys.exit(0), leaving the marker in place
HsClose_SkipsRemove(p) ==
    /\ hs[p] = "close"
    /\ cleanupLog' = [cleanupLog EXCEPT ![p] = Append(@, "close")]
    /\ \/ /\ hs' = [hs EXCEPT ![p] = "exit"]
          /\ n' = [n EXCEPT ![p].close = @ + 1]
          /\ NoEnv
          /\ UNCHANGED <<pc, status, lockAtExit>>
       \/ /\ Raise(p, "close_db_pool")
          /\ HandlerRaises(p, [n[p] EXCEPT !.close = @ + 1], lockFile)
    /\ UNCHANGED <<lockFile, regVars, esiVars>>

\* handle_shutdown: close_db_pool()
HsClose(p) ==
    /\ hs[p] = "close"
    /\ cleanupLog' = [cleanupLog EXCEPT ![p] = Append(@, "close")]
    /\ \/ /\ hs' = [hs EXCEPT ![p] = "check"]
          /\ n' = [n EXCEPT ![p].close = @ + 1]
          /\ NoEnv
          /\ UNCHANGED <<pc, status, lockAtExit>>
       \/ /\ Raise(p, "close_db_pool")
          /\ HandlerRaises(p, [n[p] EXCEPT !.close = @ + 1], lockFile)
    /\ UNCHANGED <<lockFile, regVars, esiVars>>

\* HsCheck in a handle_shutdown that calls os.remove(LOCK_FILE) without
\* testing os.path.exists first
HsCheck_NoTest(p) ==
    /\ hs[p] = "check"
    /\ hs' = [hs EXCEPT ![p] = "remove"]
    /\ NoEnv
    /\ UNCHANGED <<lockFile, pc, status, regVars, n, esiVars, cleanupLog,
                   lockAtExit>>

\* handle_shutdown: if os.path.exists(LOCK_FILE)
HsCheck(p) ==
    /\ hs[p] = "check"
    /\ hs' = [hs EXCEPT ![p] = IF lockFile THEN "remove" ELSE "exit"]
    /\ NoEnv
    /\ UNCHANGED <<lockFile, pc, status, regVars, n, esiVars, cleanupLog,
                   lockAtExit>>

\* handle_shutdown: os.remove(LOCK_FILE), FileNotFoundError when the file
\* went away after the test
HsRemove(p) ==
    /\ hs[p] = "remove"
    /\ IF lockFile
       THEN /\ lockFile' = FALSE
            /\ cleanupLog' = [cleanupLog EXCEPT ![p] = Append(@, "remove")]
            /\ hs' = [hs EXCEPT ![p] = "exit"]
            /\ UNCHANGED <<pc, status, lockAtExit, raised, n>>
       ELSE /\ raised' = [raised EXCEPT ![p] = @ \cup {"os.remove"}]
            /\ HandlerRaises(p, n[p], lockFile)
            /\ UNCHANGED <<lockFile, cleanupLog>>
    /\ UNCHANGED <<regVars, esiVars, signals, envBudget, launchLimit>>

\* HsExit with os._exit(0) in place of sys.exit(0): the process ends at
\* once and no atexit hook runs
HsExit_HardExit(p) ==
    /\ hs[p] = "exit"
    /\ cleanupLog' = [cleanupLog EXCEPT ![p] = Append(@, "exit")]
    /\ Terminate(p, "exit0", lockFile)
    /\ NoEnv
    /\ UNCHANGED <<lockFile, regVars, n, esiVars>>

\* handle_shutdown: sys.exit(0); SystemExit is no Exception, so nothing in
\* main.py catches it
HsExit(p) ==
    /\ hs[p] = "exit"
    /\ cleanupLog' = [cleanupLog EXCEPT ![p] = Append(@, "exit")]
    /\ Uncaught(p, "exit0", lockFile)
    /\ NoEnv
    /\ UNCHANGED <<lockFile, regVars, n, esiVars>>

\* Interpreter exit: the hook registered by atexit.register(close_db_pool)
\* runs (an exception it raises is printed and ignored), then the process ends.
AtExit(p) ==
    /\ MainAt(p, "atexit")
    /\ n' = [n EXCEPT ![p].close = @ + 1]
    /\ cleanupLog' = [cleanupLog EXCEPT ![p] = Append(@, "atexit_close")]
    /\ Terminate(p, status[p], lockFile)
    /\ NoEnv
    /\ UNCHANGED <<lockFile, regVars, esiVars>>

\* ------------------------------------------------------- specification
Next ==
    \E p \in Procs :
        \/ Launch(p)
        \/ EsiCheck(p)
        \/ EsiCreate(p)
        \/ InitDbPool(p)
        \/ ResetWebhook(p)
        \/ RegisterAtexit(p)
        \/ RegisterSigint(p)
        \/ RegisterSigterm(p)
        \/ PollRaise(p)
        \/ PollReturn(p)
        \/ BackoffDone(p)
        \/ \E sig \in Signals : Deliver(p, sig)
        \/ HsClose(p)
        \/ HsCheck(p)
        \/ HsRemove(p)
        \/ HsExit(p)
        \/ AtExit(p)

\* NumProcs launches side by side
Spec == Init /\ [][Next]_vars

\* one launch on its own, with a larger share of environment events
SoloInit == InitWith(SoloEvents, 1)

SoloSpec == SoloInit /\ [][Next]_vars

\* three launches side by side
TrioInit == InitWith(MaxEvents, Cardinality(Procs))

TrioSpec == TrioInit /\ [][Next]_vars

TypeOK ==
    /\ lockFile \in BOOLEAN
    /\ pc \in [Procs -> PcValues]
    /\ hs \in [Procs -> HsValues]
    /\ status \in [Procs -> StatusValues]
    /\ atexitHook \in [Procs -> BOOLEAN]
    /\ sigintH \in [Procs -> BOOLEAN]
    /\ sigtermH \in [Procs -> BOOLEAN]
    /\ \A p \in Procs : n[p].poll \in Nat /\ n[p].close \in Nat
    /\ signals \in [Procs -> Nat]
    /\ envBudget \in Nat
    /\ launchLimit \in Procs


\* one launch on its own whose interpreter keeps executing: a step that can
\* be taken is eventually taken
FairSoloSpec == SoloSpec /\ WF_vars(Next)

\* ------------------------------------------------------------- helpers
Dead(p) == pc[p] = "dead"

\* p went through ensure_single_instance and has not terminated
PastEsi(p) == Alive(p) /\ ~InEsi(p)

\* p executed all of main up to the call of start_polling_with_retry
StartupDone(p) == atexitHook[p] /\ sigintH[p] /\ sigtermH[p]

Logged(p, step) == \E i \in 1..Len(cleanupLog[p]) : cleanupLog[p][i] = step

\* ======================================================================
\* C1: every process that created the lock marker leaves it absent when it
\* has terminated, whatever the exit path (signal, exception, normal exit).
C1_MarkerAbsentOnEveryExit ==
    \A p \in Procs : (Dead(p) /\ created[p]) => ~lockAtExit[p]

\* C2: a launch that finds the marker of an earlier launch still present
\* exits with status 1 and changes nothing: the marker stays, and the launch
\* never calls init_db_pool, close_db_pool, remove_webhook or
\* infinity_polling, and registers nothing.
C2_ConflictExitsUntouched ==
    \A p \in Procs :
        conflict[p] =>
            /\ Dead(p)
            /\ status[p] = "exit1"
            /\ lockAtExit[p]
            /\ ~created[p]
            /\ n[p] = NoCalls
            /\ cleanupLog[p] = <<>>
            /\ ~atexitHook[p] /\ ~sigintH[p] /\ ~sigtermH[p]

\* the second of two launches met the marker the first one created
C2_Witness ==
    \E p, q \in Procs :
        /\ q < p
        /\ created[q]
        /\ conflict[p]
        /\ Dead(p)
        /\ lockFile

\* C3: after a termination signal delivered to a process that holds the
\* marker, at whatever point of its lifecycle, the marker is absent once
\* the process has terminated.
C3_MarkerAbsentAfterSignal ==
    \A p \in Procs :
        (Dead(p) /\ created[p] /\ signals[p] > 0) => ~lockAtExit[p]

\* C4: if close_db_pool raises inside handle_shutdown, the marker is still
\* removed before the process terminates.
C4_MarkerRemovedThoughCloseRaised ==
    \A p \in Procs :
        (Dead(p) /\ created[p] /\ "close_db_pool" \in raised[p])
            => ~lockAtExit[p]

\* C5: if init_db_pool raises, the process exits with status 1 and neither
\* remove_webhook nor infinity_polling is invoked and no signal handler or
\* exit hook is registered.
C5_InitFailureIsFatal ==
    \A p \in Procs :
        "init_db_pool" \in raised[p] =>
            /\ Dead(p)
            /\ status[p] = "exit1"
            /\ n[p].webhook = 0
            /\ n[p].poll = 0
            /\ ~atexitHook[p] /\ ~sigintH[p] /\ ~sigtermH[p]

C5_Witness ==
    \E p \in Procs :
        /\ "init_db_pool" \in raised[p]
        /\ n[p].init = 1
        /\ Dead(p)

\* C6: if init_db_pool succeeded and bot.remove_webhook raises, the failure
\* is swallowed: the process does not exit because of it (it ends only after
\* a signal), whoever reaches the retry loop has the exit hook and both
\* signal handlers registered, and unless a signal arrives infinity_polling
\* is eventually invoked.
C6_WebhookFailureSwallowedInv ==
    \A p \in Procs :
        "remove_webhook" \in raised[p] =>
            /\ n[p].init = 1 /\ "init_db_pool" \notin raised[p]
            /\ pc[p] \in {"atexit", "dead"} => signals[p] > 0
            /\ status[p] # "none" => signals[p] > 0
            /\ n[p].poll > 0 => StartupDone(p)

C6_WebhookFailureSwallowed ==
    /\ []C6_WebhookFailureSwallowedInv
    /\ \A p \in Procs :
           ("remove_webhook" \in raised[p])
               ~> (n[p].poll > 0 \/ signals[p] > 0)

C6_Witness ==
    \E p \in Procs :
        /\ "remove_webhook" \in raised[p]
        /\ signals[p] = 0
        /\ StartupDone(p)
        /\ pc[p] = "polling"
        /\ n[p].poll = 1

\* C7: if infinity_polling raises on its first N invocations and then does
\* not raise, the loop sleeps exactly N times for the fixed 5 seconds, once
\* between each failed invocation and the next invocation, invokes N+1
\* times up to the successful one, and never leaves the loop on its own.
C7_RetryCounts ==
    \A p \in Procs :
        n[p].poll > 0 =>
            /\ n[p].sleep = n[p].pollRaised
            /\ n[p].slept = RetryDelay * n[p].pollRaised
            /\ pc[p] = "polling"
                   => n[p].poll = n[p].pollRaised + n[p].pollReturned + 1
            /\ pc[p] = "backoff"
                   => n[p].poll = n[p].pollRaised + n[p].pollReturned
            /\ pc[p] \in {"polling", "backoff"} \/ signals[p] > 0

\* two failed invocations, two sleeps, and the third invocation returned
C7_Witness ==
    \E p \in Procs :
        /\ signals[p] = 0
        /\ n[p].pollRaised = 2
        /\ n[p].sleep = 2
        /\ n[p].pollReturned = 1
        /\ n[p].poll = 4
        /\ pc[p] = "polling"

\* C8: however a process that completed startup ends, at termination
\* close_db_pool has been invoked at least once and the marker has been
\* removed.
C8_CleanupOnEveryEnd ==
    \A p \in Procs :
        (Dead(p) /\ StartupDone(p)) => (n[p].close >= 1 /\ ~lockAtExit[p])

\* C9: a launch creates the marker, and a signal received after the
\* handlers are registered makes handle_shutdown invoke close_db_pool, then
\* remove the marker, then terminate the process with status 0.
C9_ShutdownOrder ==
    \A p \in Procs :
        LET log == cleanupLog[p] IN
        /\ \A i \in 1..Len(log) :
               /\ log[i] = "remove" => (i > 1 /\ log[i - 1] = "close")
               /\ log[i] = "exit" =>
                      /\ i > 1
                      /\ log[i - 1] \in {"close", "remove"}
                      /\ \E j \in 1..(i - 1) : log[j] = "remove"
        /\ Logged(p, "close") => (created[p] /\ (sigintH[p] \/ sigtermH[p]))
        /\ status[p] = "exit0" => Logged(p, "exit")
        /\ (/\ StartupDone(p)
            /\ Logged(p, "exit")
            /\ raised[p] \cap {"close_db_pool", "os.remove"} = {})
               => status[p] = "exit0"
        /\ (Dead(p) /\ status[p] = "exit0") => ~lockAtExit[p]

C9_Witness ==
    \E p \in Procs :
        /\ Dead(p)
        /\ signals[p] = 1
        /\ StartupDone(p)
        /\ status[p] = "exit0"
        /\ ~lockAtExit[p]
        /\ Len(cleanupLog[p]) >= 3
        /\ SubSeq(cleanupLog[p], 1, 3) = <<"close", "remove", "exit">>

\* C10: as long as launches do not overlap inside ensure_single_instance,
\* there is never a state in which two processes are both alive and both
\* past ensure_single_instance.
C10_AtMostOnePastEsi ==
    ~esiOverlap => Cardinality({p \in Procs : PastEsi(p)}) <= 1

\* number of times step occurs in the shutdown steps of p
RECURSIVE CountIn(_, _)
CountIn(log, step) ==
    IF log = <<>> THEN 0
    ELSE (IF Head(log) = step THEN 1 ELSE 0) + CountIn(Tail(log), step)

\* C11: the marker-removal step of handle_shutdown raises no error when the
\* marker is already absent, and running it two or more times (a second
\* signal after the first removed the marker) leaves the marker absent, as
\* running it once does.
C11_ReleaseIdempotent ==
    \A p \in Procs :
        /\ "os.remove" \notin raised[p]
        /\ hs[p] = "remove" => lockFile
        /\ CountIn(cleanupLog[p], "remove") <= 1
        /\ Logged(p, "remove") => ~lockFile
        /\ (Dead(p) /\ Logged(p, "remove")) => ~lockAtExit[p]

\* a second handle_shutdown ran its removal step after the first one had
\* removed the marker, and went on to sys.exit(0)
C11_Witness ==
    \E p \in Procs :
        /\ signals[p] >= 2
        /\ Len(cleanupLog[p]) >= 4
        /\ SubSeq(cleanupLog[p], 1, 4) = <<"close", "remove", "close", "exit">>
        /\ "os.remove" \notin raised[p]
        /\ ~lockFile

\* C12: startup is strictly sequenced: infinity_polling is never invoked
\* before this process created the marker, init_db_pool returned, remove_webhook
\* was attempted and the exit hook and both signal handlers were registered;
\* each of these steps happens once per launch and the retry loop never
\* repeats one.
C12_StartupSequenced ==
    \A p \in Procs :
        /\ n[p].init <= 1 /\ n[p].webhook <= 1 /\ n[p].reg <= 3
        /\ n[p].init > 0 => created[p]
        /\ n[p].webhook > 0 => (n[p].init = 1 /\ "init_db_pool" \notin raised[p])
        /\ n[p].reg > 0 => n[p].webhook = 1
        /\ atexitHook[p] <=> n[p].reg >= 1
        /\ sigintH[p] <=> n[p].reg >= 2
        /\ sigtermH[p] <=> n[p].reg = 3
        /\ n[p].poll > 0 => (n[p].reg = 3 /\ StartupDone(p))
        /\ pc[p] \in {"polling", "backoff"} => n[p].poll > 0

\* the retry loop went around after a failure and startup still ran once
C12_Witness ==
    \E p \in Procs :
        /\ pc[p] = "polling"
        /\ n[p].pollRaised >= 1
        /\ n[p].poll >= 2
        /\ created[p]
        /\ n[p].init = 1 /\ n[p].webhook = 1 /\ n[p].reg = 3

\* p is inside the while loop of start_polling_with_retry
InLoop(p) == pc[p] \in {"polling", "backoff"}

\* C13: the poll loop has two states, Polling and Backoff, and no terminal
\* state: whatever exception infinity_polling raises and however many
\* failures preceded it, the loop goes to Backoff and back to Polling, so
\* infinity_polling is invoked again after every failure unless a termination
\* signal ends the process.
C13_LoopInv ==
    \A p \in Procs :
        n[p].poll > 0 =>
            /\ InLoop(p) \/ signals[p] > 0
            /\ pc[p] = "backoff" => n[p].pollRaised >= 1
            /\ n[p].poll >= n[p].pollRaised

C13_LoopNeverEnds ==
    /\ []C13_LoopInv
    /\ \A p \in Procs :
           (pc[p] = "backoff") ~> (pc[p] = "polling" \/ ~InLoop(p))

\* after a second failure in a row infinity_polling is invoked a third time
C13_Witness ==
    \E p \in Procs :
        /\ signals[p] = 0
        /\ n[p].pollRaised = 2
        /\ n[p].pollReturned = 0
        /\ n[p].poll = 3
        /\ pc[p] = "polling"

\* the marker is present, a process that created it terminated leaving it
\* behind, and no live process is beyond the existence test
StaleMarker ==
    /\ lockFile
    /\ \E q \in Procs : Dead(q) /\ created[q] /\ lockAtExit[q]
    /\ \A q \in Procs : Alive(q) => pc[q] = "esi_check"

\* C14 as stated: once a process that created the marker terminated without
\* removing it, every later launch ends at ensure_single_instance, without
\* creating the marker, initializing the pool or polling.
C14_EveryLaterLaunchTurnedAway ==
    \A p \in Procs :
        afterStale[p] =>
            /\ pc[p] \in {"esi_check", "dead"}
            /\ ~created[p]
            /\ n[p] = NoCalls

\* C14, amended: the marker has no expiry: once a process that created it
\* terminated without removing it and no other instance is running, the
\* marker stays and every later launch ends at ensure_single_instance with
\* status 1, without initializing the pool or polling.
C14_StaleMarkerBlocks ==
    [][StaleMarker =>
          /\ StaleMarker'
          /\ \A p \in Procs :
                 (pc[p] = "esi_check" /\ pc'[p] # "esi_check") =>
                     /\ pc'[p] = "dead"
                     /\ n'[p] = NoCalls
                     /\ ~created'[p]
                     /\ \/ conflict'[p] /\ status'[p] = "exit1"
                        \/ signals'[p] > signals[p]]_vars

\* a launch made after the creator of the marker had died was turned away
C14_Witness ==
    \E p, q \in Procs :
        /\ q < p
        /\ Dead(q) /\ created[q] /\ lockAtExit[q]
        /\ n[q].init = 1
        /\ afterStale[p]
        /\ Dead(p) /\ conflict[p] /\ status[p] = "exit1"
        /\ StaleMarker

C17_SleepOnlyAfterRaise ==
    [][\A p \in Procs :
          /\ n'[p].sleep # n[p].sleep =>
                 /\ pc[p] = "polling" /\ pc'[p] = "backoff"
                 /\ n'[p].sleep = n[p].sleep + 1
                 /\ n'[p].pollRaised = n[p].pollRaised + 1
                 /\ n'[p].pollReturned = n[p].pollReturned
          /\ n'[p].pollRaised # n[p].pollRaised =>
                 n'[p].sleep = n[p].sleep + 1
          /\ n'[p].pollReturned # n[p].pollReturned =>
                 /\ pc[p] = "polling" /\ pc'[p] = "polling"
                 /\ n'[p].pollReturned = n[p].pollReturned + 1
                 /\ n'[p].poll = n[p].poll + 1
                 /\ n'[p].sleep = n[p].sleep
                 /\ n'[p].slept = n[p].slept
          /\ n'[p].sleep = n'[p].pollRaised]_vars

\* infinity_polling returned normally twice and was invoked a third time
\* without any sleep, then raised once and one sleep followed
C17_Witness ==
    \E p \in Procs :
        /\ signals[p] = 0
        /\ n[p].pollReturned = 2
        /\ n[p].pollRaised = 1
        /\ n[p].sleep = 1
        /\ n[p].poll = 4
        /\ MainAt(p, "polling")

====
